---------------------------- MODULE Spec2Model ----------------------------
(***************************************************************************)
(* EduNote AI server: POST /generateLessonDraft.                           *)
(*                                                                         *)
(* Two programs are modelled: src/index.js (validation, prompt, external   *)
(* call wrapped in generateWithRetry) and src/unnamed/part_000 (the same   *)
(* handler calling the external capability once, without retry).           *)
(*                                                                         *)
(* JavaScript strings are sequences of one-character strings, so that      *)
(* toLowerCase, toUpperCase, includes, trim and join are computed, not     *)
(* assumed.  JavaScript values are tagged records.                         *)
(***************************************************************************)
EXTENDS Integers, Sequences, FiniteSets

(***************************************************************************)
(* Bounds of the model.                                                    *)
(***************************************************************************)
\* Longest `sections` array a request body carries.
MaxSections == 2

(***************************************************************************)
(* String literals of the programs.                                        *)
(***************************************************************************)
\* "N/A": `${week || "N/A"}`, `${subTopic || "N/A"}`
NA == <<"N", "/", "A">>

\* "1. OBJECTIVES\n2. CONTENT\n3. EVALUATION"
DefaultSections ==
    <<"1", ".", " ", "O", "B", "J", "E", "C", "T", "I", "V", "E", "S", "\n",
      "2", ".", " ", "C", "O", "N", "T", "E", "N", "T", "\n",
      "3", ".", " ", "E", "V", "A", "L", "U", "A", "T", "I", "O", "N">>

\* "The AI is currently overloaded. Please try again in a few moments."
FriendlyOverloaded ==
    <<"T", "h", "e", " ", "A", "I", " ", "i", "s", " ", "c", "u", "r", "r", "e",
      "n", "t", "l", "y", " ", "o", "v", "e", "r", "l", "o", "a", "d", "e", "d",
      ".", " ", "P", "l", "e", "a", "s", "e", " ", "t", "r", "y", " ", "a", "g",
      "a", "i", "n", " ", "i", "n", " ", "a", " ", "f", "e", "w", " ", "m", "o",
      "m", "e", "n", "t", "s", ".">>

\* The substrings isRetryable looks for: "503", "500", "overloaded", "unavailable"
Needle503 == <<"5", "0", "3">>
Needle500 == <<"5", "0", "0">>
NeedleOverloaded == <<"o", "v", "e", "r", "l", "o", "a", "d", "e", "d">>
NeedleUnavailable == <<"u", "n", "a", "v", "a", "i", "l", "a", "b", "l", "e">>

\* Messages of the TypeErrors the engine raises (V8's wording).
\* "s.toUpperCase is not a function"
NotAFunctionMsg ==
    <<"s", ".", "t", "o", "U", "p", "p", "e", "r", "C", "a", "s", "e", " ", "i",
      "s", " ", "n", "o", "t", " ", "a", " ", "f", "u", "n", "c", "t", "i", "o",
      "n">>

\* "Cannot read properties of undefined (reading 'toLowerCase')"
ReadLowerMsg ==
    <<"C", "a", "n", "n", "o", "t", " ", "r", "e", "a", "d", " ", "p", "r", "o",
      "p", "e", "r", "t", "i", "e", "s", " ", "o", "f", " ", "u", "n", "d", "e",
      "f", "i", "n", "e", "d", " ", "(", "r", "e", "a", "d", "i", "n", "g", " ",
      "'", "t", "o", "L", "o", "w", "e", "r", "C", "a", "s", "e", "'", ")">>

\* "Cannot read properties of undefined (reading 'message')"
ReadMessageMsg ==
    <<"C", "a", "n", "n", "o", "t", " ", "r", "e", "a", "d", " ", "p", "r", "o",
      "p", "e", "r", "t", "i", "e", "s", " ", "o", "f", " ", "u", "n", "d", "e",
      "f", "i", "n", "e", "d", " ", "(", "r", "e", "a", "d", "i", "n", "g", " ",
      "'", "m", "e", "s", "s", "a", "g", "e", "'", ")">>

(***************************************************************************)
(* JavaScript values.                                                      *)
(***************************************************************************)
Undef == [t |-> "undefined"]
Str(s) == [t |-> "string", v |-> s]
Num(n) == [t |-> "number", v |-> n]
Arr(a) == [t |-> "array", v |-> a]
\* An Error object (or any thrown object) and its `message` property.
Err(m) == [t |-> "error", message |-> m]

\* ToBoolean, as `!x` applies it.
Truthy(x) ==
    CASE x.t = "undefined" -> FALSE
      [] x.t = "string" -> Len(x.v) > 0
      [] x.t = "number" -> x.v # 0
      [] OTHER -> TRUE

(***************************************************************************)
(* String built-ins.                                                       *)
(***************************************************************************)
LowerChar(c) ==
    CASE c = "A" -> "a" [] c = "B" -> "b" [] c = "C" -> "c" [] c = "D" -> "d"
      [] c = "E" -> "e" [] c = "F" -> "f" [] c = "G" -> "g" [] c = "H" -> "h"
      [] c = "I" -> "i" [] c = "J" -> "j" [] c = "K" -> "k" [] c = "L" -> "l"
      [] c = "M" -> "m" [] c = "N" -> "n" [] c = "O" -> "o" [] c = "P" -> "p"
      [] c = "Q" -> "q" [] c = "R" -> "r" [] c = "S" -> "s" [] c = "T" -> "t"
      [] c = "U" -> "u" [] c = "V" -> "v" [] c = "W" -> "w" [] c = "X" -> "x"
      [] c = "Y" -> "y" [] c = "Z" -> "z" [] OTHER -> c

UpperChar(c) ==
    CASE c = "a" -> "A" [] c = "b" -> "B" [] c = "c" -> "C" [] c = "d" -> "D"
      [] c = "e" -> "E" [] c = "f" -> "F" [] c = "g" -> "G" [] c = "h" -> "H"
      [] c = "i" -> "I" [] c = "j" -> "J" [] c = "k" -> "K" [] c = "l" -> "L"
      [] c = "m" -> "M" [] c = "n" -> "N" [] c = "o" -> "O" [] c = "p" -> "P"
      [] c = "q" -> "Q" [] c = "r" -> "R" [] c = "s" -> "S" [] c = "t" -> "T"
      [] c = "u" -> "U" [] c = "v" -> "V" [] c = "w" -> "W" [] c = "x" -> "X"
      [] c = "y" -> "Y" [] c = "z" -> "Z" [] OTHER -> c

\* String.prototype.toLowerCase
toLowerCase(s) == [k \in 1..Len(s) |-> LowerChar(s[k])]

\* String.prototype.toUpperCase
toUpperCase(s) == [k \in 1..Len(s) |-> UpperChar(s[k])]

\* String.prototype.includes
includes(s, needle) ==
    \E k \in 0..(Len(s) - Len(needle)) : SubSeq(s, k + 1, k + Len(needle)) = needle

\* White space as String.prototype.trim strips it.
IsSpace(c) == c \in {" ", "\n", "\t", "\r"}

RECURSIVE TrimStart(_)
TrimStart(s) ==
    IF s # <<>> /\ IsSpace(Head(s)) THEN TrimStart(Tail(s)) ELSE s

RECURSIVE TrimEnd(_)
TrimEnd(s) ==
    IF s # <<>> /\ IsSpace(s[Len(s)]) THEN TrimEnd(SubSeq(s, 1, Len(s) - 1)) ELSE s

\* String.prototype.trim
trim(s) == TrimEnd(TrimStart(s))

Digit(d) ==
    CASE d = 0 -> "0" [] d = 1 -> "1" [] d = 2 -> "2" [] d = 3 -> "3" [] d = 4 -> "4"
      [] d = 5 -> "5" [] d = 6 -> "6" [] d = 7 -> "7" [] d = 8 -> "8" [] d = 9 -> "9"

\* A natural number in a template literal: its decimal digits.
RECURSIVE NumToStr(_)
NumToStr(n) ==
    IF n < 10 THEN <<Digit(n)>> ELSE NumToStr(n \div 10) \o <<Digit(n % 10)>>

\* Array.prototype.join
RECURSIVE join(_, _)
join(parts, sep) ==
    IF parts = <<>> THEN <<>>
    ELSE IF Len(parts) = 1 THEN parts[1]
    ELSE parts[1] \o sep \o join(Tail(parts), sep)

\* Math.pow(2, n)
RECURSIVE Pow2(_)
Pow2(n) == IF n = 0 THEN 1 ELSE 2 * Pow2(n - 1)

(***************************************************************************)
(* Inputs: request bodies and what the external capability does.           *)
(***************************************************************************)
\* The two programs of the repository.
Programs == {"index.js", "part_000"}

\* Requests in flight are told apart by an id.
ReqIds == {1, 2}

\* What a client may send for a required field: nothing, "", " ", a word.
Blank == <<" ">>
WordNERDC == <<"N", "E", "R", "D", "C">>
WordJSS1 == <<"J", "S", "S", "1">>
WordMath == <<"M", "a", "t", "h">>
WordSets == <<"S", "e", "t", "s">>
WordObjectives == <<"o", "b", "j", "e", "c", "t", "i", "v", "e", "s">>
WordContent == <<"C", "o", "n", "t", "e", "n", "t">>
WordAbc == <<"a", "b", "c">>

RequiredValues(word) == {Undef, Str(<<>>), Str(Blank), Str(word)}

OptionalValues == {Undef, Str(<<"3">>)}

SectionEntries == {Str(WordObjectives), Str(WordContent)}

\* Arrays of at most MaxSections strings.
SectionArrays ==
    UNION {[1..n -> SectionEntries] : n \in 0..MaxSections}

\* What a client may send as `sections`: nothing, 0, a string, a number, an
\* array of strings (possibly empty), an array holding a number.
SectionValues ==
    {Undef, Num(0), Str(WordAbc), Num(7), Arr(<<Str(WordObjectives), Num(5)>>)}
        \cup {Arr(a) : a \in SectionArrays}

\* req.body after express.json(): an object; a key the client left out
\* destructures to undefined.
Bodies ==
    [curriculum : RequiredValues(WordNERDC),
     classLevel : RequiredValues(WordJSS1),
     subject : RequiredValues(WordMath),
     topic : RequiredValues(WordSets),
     week : OptionalValues,
     subTopic : {Undef},
     sections : SectionValues]

\* Texts result.response.text() may return.
\* "Lesson text"
TextPlain == <<"L", "e", "s", "s", "o", "n", " ", "t", "e", "x", "t">>
\* " Lesson text\n"
TextPadded == <<" ", "L", "e", "s", "s", "o", "n", " ", "t", "e", "x", "t", "\n">>
\* " \n"
TextBlank == <<" ", "\n">>

Texts == {TextPlain, TextPadded, TextBlank}

\* Messages of the errors model.generateContent may reject with.
\* "503 Service Unavailable"
Msg503 ==
    <<"5", "0", "3", " ", "S", "e", "r", "v", "i", "c", "e", " ", "U", "n", "a",
      "v", "a", "i", "l", "a", "b", "l", "e">>
\* "500 Internal Server Error"
Msg500 ==
    <<"5", "0", "0", " ", "I", "n", "t", "e", "r", "n", "a", "l", " ", "S", "e",
      "r", "v", "e", "r", " ", "E", "r", "r", "o", "r">>
\* "The model is overloaded"
MsgOverloaded ==
    <<"T", "h", "e", " ", "m", "o", "d", "e", "l", " ", "i", "s", " ", "o", "v",
      "e", "r", "l", "o", "a", "d", "e", "d">>
\* "Model Overloaded"
MsgOverloadedCaps ==
    <<"M", "o", "d", "e", "l", " ", "O", "v", "e", "r", "l", "o", "a", "d", "e",
      "d">>
\* "UNAVAILABLE"
MsgUnavailableCaps == <<"U", "N", "A", "V", "A", "I", "L", "A", "B", "L", "E">>
\* "400 Bad Request"
Msg400 ==
    <<"4", "0", "0", " ", "B", "a", "d", " ", "R", "e", "q", "u", "e", "s", "t">>
\* "429 Quota exceeded"
Msg429 ==
    <<"4", "2", "9", " ", "Q", "u", "o", "t", "a", " ", "e", "x", "c", "e", "e",
      "d", "e", "d">>

\* "Overload: 50 req/3 s"
MsgNearMiss ==
    <<"O", "v", "e", "r", "l", "o", "a", "d", ":", " ", "5", "0", " ", "r", "e",
      "q", "/", "3", " ", "s">>

Messages ==
    {Msg503, Msg500, MsgOverloaded, MsgOverloadedCaps, MsgUnavailableCaps,
     Msg400, Msg429, MsgNearMiss}

\* What model.generateContent may reject with: an Error carrying a message,
\* an object without a message, or the value undefined.
Rejections == {Err(Str(m)) : m \in Messages} \cup {Err(Undef), Undef}

(***************************************************************************)
(* The programs' pure parts.                                               *)
(***************************************************************************)
\* generateWithRetry(model, prompt, maxRetries = 3)
maxRetries == 3

\* A faulty variant: the validation forgets `!sections`.
MissingRequiredFieldsNoSections(b) ==
    \/ ~Truthy(b.curriculum)
    \/ ~Truthy(b.classLevel)
    \/ ~Truthy(b.subject)
    \/ ~Truthy(b.topic)

\* if (!curriculum || !classLevel || !subject || !topic || !sections)
MissingRequiredFields(b) ==
    \/ ~Truthy(b.curriculum)
    \/ ~Truthy(b.classLevel)
    \/ ~Truthy(b.subject)
    \/ ~Truthy(b.topic)
    \/ ~Truthy(b.sections)

\* A faulty variant: the numbering starts at 0.
SectionLineFromZero(s, i) == NumToStr(i) \o <<".", " ">> \o toUpperCase(s.v)

\* `${i + 1}. ${s.toUpperCase()}`
SectionLine(s, i) == NumToStr(i + 1) \o <<".", " ">> \o toUpperCase(s.v)

\* const formattedSections = Array.isArray(sections) ? sections.map(...).join('\n')
\*                                                    : "1. OBJECTIVES\n...";
\* Calling toUpperCase on an entry that is not a string throws a TypeError.
formattedSections(sections) ==
    IF sections.t = "array"
    THEN IF \E k \in 1..Len(sections.v) : sections.v[k].t # "string"
         THEN [threw |-> TRUE, error |-> Err(Str(NotAFunctionMsg))]
         ELSE [threw |-> FALSE,
               value |-> join([k \in 1..Len(sections.v) |->
                                  SectionLine(sections.v[k], k - 1)], <<"\n">>)]
    ELSE [threw |-> FALSE, value |-> DefaultSections]

\* x || "N/A" in a template literal
OrNA(x) == IF Truthy(x) THEN x.v ELSE NA

\* The template literal: its fixed text is the program's, the rest is interpolated.
BuildPrompt(program_, b, fs) ==
    [template |-> program_,
     curriculum |-> b.curriculum.v,
     classLevel |-> b.classLevel.v,
     subject |-> b.subject.v,
     week |-> OrNA(b.week),
     topic |-> b.topic.v,
     subTopic |-> OrNA(b.subTopic),
     sections |-> fs]

\* A faulty variant: every failure is retried.
isRetryableAlways(error) == TRUE

\* A faulty variant: the classifier forgets "overloaded".
isRetryableNoOverloaded(error) ==
    LET msg == toLowerCase(error.message.v)
    IN \/ includes(msg, Needle503)
       \/ includes(msg, Needle500)
       \/ includes(msg, NeedleUnavailable)

\* const isRetryable = msg.includes("503") || msg.includes("500")
\*                  || msg.includes("overloaded") || msg.includes("unavailable");
\* with msg = error.message.toLowerCase()
isRetryable(error) ==
    LET msg == toLowerCase(error.message.v)
    IN \/ includes(msg, Needle503)
       \/ includes(msg, Needle500)
       \/ includes(msg, NeedleOverloaded)
       \/ includes(msg, NeedleUnavailable)

\* A faulty variant: the loop runs one iteration too many.
LoopContinuesOffByOne(i_) == i_ <= maxRetries

\* for (let i = 0; i < maxRetries; i++)
LoopContinues(i_) == i_ < maxRetries

\* A faulty variant: the exponent is one too small.
delayOffByOne(i_) == Pow2(i_ - 1) * 1000

\* const delay = Math.pow(2, i) * 1000;
delay(i_) == Pow2(i_) * 1000

\* A faulty variant: only the first failure is remembered.
AssignLastErrorFirstOnly(old, error) == IF old = Undef THEN error ELSE old

\* lastError = error;
AssignLastError(old, error) == error

\* A faulty variant: one loop index, declared outside the function, serves
\* every invocation.
LoopIndexShared(r) == 1

\* for (let i = 0; ...): the loop index is a local of the invocation, so the
\* invocation made for request r counts in its own i.
LoopIndexOf(r) == r

\* A faulty variant: the text is relayed untrimmed.
responseTextUntrimmed(text) == text

\* result.response.text().trim()
responseText(text) == trim(text)

\* details: error.message.includes("overloaded") ? "The AI is ..." : error.message
Details(message) ==
    IF includes(message, NeedleOverloaded) THEN FriendlyOverloaded ELSE message

NoResponse == [status |-> 0]

\* The handler's catch block: the response it sends, or NoResponse when reading
\* error.message throws inside the catch block itself.
CatchResponse(program_, error) ==
    IF error.t = "undefined" THEN NoResponse
    ELSE IF program_ = "index.js"
    THEN IF error.message.t # "string" THEN NoResponse
         ELSE [status |-> 500,
               body |-> [error |-> "AI Service Busy",
                         details |-> Details(error.message.v)]]
    ELSE IF error.message.t = "undefined"
    THEN [status |-> 500, body |-> [error |-> "AI Generation Failed"]]
    ELSE [status |-> 500,
          body |-> [error |-> "AI Generation Failed", details |-> error.message.v]]

(***************************************************************************)
(* State.                                                                  *)
(***************************************************************************)
VARIABLES
    program,    \* which of the two programs is running
    pc,         \* per request: where its handler is
    body,       \* per request: req.body
    prompt,     \* per request: the prompt passed to model.generateContent
    i,          \* per request: generateWithRetry's loop index
    lastError,  \* per request: generateWithRetry's lastError
    hung,       \* per request: the pending external call will never settle
    resp,       \* per request: the response sent (NoResponse: none yet)
    calls,      \* history, per request: calls of model.generateContent so far
    waits,      \* history, per request: the backoff delays waited, in ms
    errors,     \* history, per request: what each failed call rejected with
    genText,    \* history, per request: the text the successful call returned
    exit        \* history, per request: how generateWithRetry ended

vars ==
    <<program, pc, body, prompt, i, lastError, hung, resp, calls, waits, errors,
      genText, exit>>

\* pc: "pending"   the request has not arrived
\*     "received"  express.json() has parsed it; the handler has not run
\*     "awaitGen"  suspended at `await model.generateContent(prompt)`
\*     "backoff"   suspended at `await new Promise(r => setTimeout(r, delay))`
\*     "responded" the handler has sent its response and returned
\*     "unhandled" an exception left the handler; no response is sent
\* exit: "none", "returned" (line 36), "nonRetryable" (line 47),
\*       "exhausted" (line 52), "typeError" (line 40 threw)

Init ==
    /\ program \in Programs
    /\ pc = [r \in ReqIds |-> "pending"]
    /\ body = [r \in ReqIds |-> Undef]
    /\ prompt = [r \in ReqIds |-> Undef]
    /\ i = [r \in ReqIds |-> 0]
    /\ lastError = [r \in ReqIds |-> Undef]
    /\ hung = [r \in ReqIds |-> FALSE]
    /\ resp = [r \in ReqIds |-> NoResponse]
    /\ calls = [r \in ReqIds |-> 0]
    /\ waits = [r \in ReqIds |-> <<>>]
    /\ errors = [r \in ReqIds |-> <<>>]
    /\ genText = [r \in ReqIds |-> Undef]
    /\ exit = [r \in ReqIds |-> "none"]

(***************************************************************************)
(* Operations.                                                             *)
(***************************************************************************)
\* A POST /generateLessonDraft arrives and express.json() parses its body.
Arrive(r) ==
    /\ pc[r] = "pending"
    /\ \E b \in Bodies : body' = [body EXCEPT ![r] = b]
    /\ pc' = [pc EXCEPT ![r] = "received"]
    /\ UNCHANGED <<program, prompt, i, lastError, hung, resp, calls, waits,
                   errors, genText, exit>>

\* The handler's catch block runs on `error` and the handler ends.
Caught(r, error) ==
    LET answer == CatchResponse(program, error)
    IN /\ resp' = [resp EXCEPT ![r] = answer]
       /\ pc' = [pc EXCEPT ![r] = IF answer = NoResponse THEN "unhandled"
                                  ELSE "responded"]

\* The handler runs from its start to its first await: validation, the
\* sections list, the prompt, and the first call of model.generateContent
\* (in index.js through generateWithRetry, whose attempt 0 waits for nothing).
Handle(r) ==
    /\ pc[r] = "received"
    /\ IF MissingRequiredFields(body[r])
       THEN /\ resp' = [resp EXCEPT ![r] =
                           [status |-> 400,
                            body |-> [error |-> "Missing required fields"]]]
            /\ pc' = [pc EXCEPT ![r] = "responded"]
            /\ UNCHANGED <<prompt, calls>>
       ELSE LET fs == formattedSections(body[r].sections)
            IN IF fs.threw
               THEN /\ Caught(r, fs.error)
                    /\ UNCHANGED <<prompt, calls>>
               ELSE /\ prompt' = [prompt EXCEPT ![r] =
                                     BuildPrompt(program, body[r], fs.value)]
                    /\ calls' = [calls EXCEPT ![r] = @ + 1]
                    /\ pc' = [pc EXCEPT ![r] = "awaitGen"]
                    /\ UNCHANGED resp
    /\ UNCHANGED <<program, body, i, lastError, hung, waits, errors, genText, exit>>

\* The pending call resolves and result.response.text() returns `text`:
\* generateWithRetry returns it trimmed (part_000 trims it in the handler) and
\* the handler answers res.json({ draft: responseText }).
GenResolve(r, text) ==
    /\ pc[r] = "awaitGen"
    /\ ~hung[r]
    /\ genText' = [genText EXCEPT ![r] = Str(text)]
    /\ exit' = [exit EXCEPT ![r] = IF program = "index.js" THEN "returned" ELSE @]
    /\ resp' = [resp EXCEPT ![r] =
                   [status |-> 200, body |-> [draft |-> responseText(text)]]]
    /\ pc' = [pc EXCEPT ![r] = "responded"]
    /\ UNCHANGED <<program, body, prompt, i, lastError, hung, calls, waits, errors>>

\* index.js, the catch block of generateWithRetry on `error`, and what follows
\* it: a throw to the handler's catch block, or the next iteration's backoff.
RetryCatch(r, error) ==
    /\ lastError' = [lastError EXCEPT ![r] = AssignLastError(@, error)]
    /\ IF error.t = "undefined"
       THEN \* error.message throws
            /\ exit' = [exit EXCEPT ![r] = "typeError"]
            /\ Caught(r, Err(Str(ReadMessageMsg)))
            /\ UNCHANGED <<i, waits>>
       ELSE IF error.message.t # "string"
       THEN \* error.message.toLowerCase() throws
            /\ exit' = [exit EXCEPT ![r] = "typeError"]
            /\ Caught(r, Err(Str(ReadLowerMsg)))
            /\ UNCHANGED <<i, waits>>
       ELSE IF ~isRetryable(error)
       THEN \* throw error
            /\ exit' = [exit EXCEPT ![r] = "nonRetryable"]
            /\ Caught(r, error)
            /\ UNCHANGED <<i, waits>>
       ELSE \* i++
            /\ i' = [i EXCEPT ![LoopIndexOf(r)] = @ + 1]
            /\ IF LoopContinues(i[LoopIndexOf(r)] + 1)
               THEN \* i > 0: wait before the call
                    /\ waits' = [waits EXCEPT ![r] =
                                    Append(@, delay(i[LoopIndexOf(r)] + 1))]
                    /\ pc' = [pc EXCEPT ![r] = "backoff"]
                    /\ UNCHANGED <<resp, exit>>
               ELSE \* throw lastError
                    /\ exit' = [exit EXCEPT ![r] = "exhausted"]
                    /\ Caught(r, lastError'[r])
                    /\ UNCHANGED waits

\* The pending call rejects with `error` (or result.response.text() throws it).
GenReject(r, error) ==
    /\ pc[r] = "awaitGen"
    /\ ~hung[r]
    /\ errors' = [errors EXCEPT ![r] = Append(@, error)]
    /\ IF program = "index.js"
       THEN RetryCatch(r, error)
       ELSE /\ Caught(r, error)
            /\ UNCHANGED <<i, lastError, waits, exit>>
    /\ UNCHANGED <<program, body, prompt, hung, calls, genText>>

\* index.js: the backoff timer fires and the next attempt calls
\* model.generateContent.
BackoffElapsed(r) ==
    /\ pc[r] = "backoff"
    /\ calls' = [calls EXCEPT ![r] = @ + 1]
    /\ pc' = [pc EXCEPT ![r] = "awaitGen"]
    /\ UNCHANGED <<program, body, prompt, i, lastError, hung, resp, waits, errors,
                   genText, exit>>

\* The external capability will never settle the pending call.
GenNeverSettles(r) ==
    /\ pc[r] = "awaitGen"
    /\ ~hung[r]
    /\ hung' = [hung EXCEPT ![r] = TRUE]
    /\ UNCHANGED <<program, pc, body, prompt, i, lastError, resp, calls, waits,
                   errors, genText, exit>>

\* One request at a time.
Next ==
    \/ Arrive(1)
    \/ Handle(1)
    \/ \E text \in Texts : GenResolve(1, text)
    \/ \E error \in Rejections : GenReject(1, error)
    \/ BackoffElapsed(1)
    \/ GenNeverSettles(1)

Spec == Init /\ [][Next]_vars

\* The event loop runs every continuation that is ready and fires every timer;
\* the external capability settles every call it has not abandoned.
FairSpec == Spec /\ WF_vars(Next)

(***************************************************************************)
(* Properties.                                                             *)
(***************************************************************************)
\* A failure is transient when it is an error whose message contains "503",
\* "500", "overloaded" or "unavailable", whatever the letter case.
Transient(e) ==
    /\ e.t = "error"
    /\ e.message.t = "string"
    /\ \E needle \in {Needle503, Needle500, NeedleOverloaded, NeedleUnavailable} :
          includes(toLowerCase(e.message.v), needle)

\* A failure is permanent when it is an error with a message and not transient.
Permanent(e) ==
    /\ e.t = "error"
    /\ e.message.t = "string"
    /\ ~Transient(e)

Last(seq) == seq[Len(seq)]

\* Every call made so far for request r has failed, each with a transient error.
AllFailedTransient(r) ==
    /\ calls[r] > 0
    /\ Len(errors[r]) = calls[r]
    /\ \A k \in 1..Len(errors[r]) : Transient(errors[r][k])

\* C1: in generateWithRetry, while every call fails with a transient error the
\* invocation goes on until exactly maxRetries calls have been made, and with
\* the maxRetries-th failure it ends in failure: never fewer calls, never more.
C1_RetryBound ==
    \A r \in ReqIds :
        (program = "index.js" /\ AllFailedTransient(r)) =>
            /\ calls[r] <= maxRetries
            /\ calls[r] < maxRetries => (pc[r] = "backoff" /\ exit[r] = "none")
            /\ calls[r] = maxRetries =>
                  (pc[r] = "responded" /\ exit[r] = "exhausted"
                      /\ resp[r].status = 500)

C1_Witness ==
    /\ program = "index.js"
    /\ AllFailedTransient(1)
    /\ calls[1] = 3
    /\ exit[1] = "exhausted"

\* C2: in generateWithRetry, a permanent failure at any attempt is the last
\* thing the invocation does: it is thrown at once (it is the last failure, at
\* the last call made, with one wait per earlier attempt and none after it), so
\* a permanent failure of the first attempt means exactly one call.
C2_PermanentNotRetried ==
    \A r \in ReqIds :
        program = "index.js" =>
            \A k \in 1..Len(errors[r]) :
                Permanent(errors[r][k]) =>
                    /\ k = Len(errors[r])
                    /\ calls[r] = k
                    /\ Len(waits[r]) = k - 1
                    /\ exit[r] = "nonRetryable"
                    /\ lastError[r] = errors[r][k]
                    /\ pc[r] = "responded"

C2_Witness ==
    /\ program = "index.js"
    /\ Len(errors[1]) = 2
    /\ Transient(errors[1][1])
    /\ Permanent(errors[1][2])
    /\ pc[1] = "responded"

\* A required key the client left out.
SomeFieldMissing(b) ==
    \E f \in {"curriculum", "classLevel", "subject", "topic", "sections"} :
        b[f] = Undef

\* C3: a request that lacks curriculum, classLevel, subject, topic or sections
\* is answered with HTTP 400, and the external capability is never called
\* for it.
C3_MissingFieldRejected ==
    \A r \in ReqIds :
        (pc[r] # "pending" /\ SomeFieldMissing(body[r])) =>
            /\ calls[r] = 0
            /\ pc[r] \in {"received", "responded"}
            /\ pc[r] = "responded" => resp[r].status = 400

C3_Witness ==
    /\ pc[1] = "responded"
    /\ body[1].sections = Undef
    /\ \A f \in {"curriculum", "classLevel", "subject", "topic"} :
          Truthy(body[1][f])
    /\ resp[1].status = 400

\* C4: when the external capability never settles a call, the request is
\* eventually answered with HTTP 504.
C4_TimeoutAnswered ==
    \A r \in ReqIds : [](hung[r] => <>(resp[r].status = 504))

\* C5: the k-th wait of an invocation, the one before attempt k, lasts 2^k
\* seconds; the waits increase strictly; no wait precedes attempt 0 (there is
\* exactly one wait between two consecutive calls).
C5_BackoffDelays ==
    \A r \in ReqIds :
        /\ \A k \in 1..Len(waits[r]) : waits[r][k] = (2 ^ k) * 1000
        /\ \A k \in 1..(Len(waits[r]) - 1) : waits[r][k] < waits[r][k + 1]
        /\ calls[r] = 0 => waits[r] = <<>>
        /\ calls[r] > 0 =>
              Len(waits[r]) = IF pc[r] = "backoff" THEN calls[r] ELSE calls[r] - 1

C5_Witness ==
    /\ waits[1] = <<2000, 4000>>
    /\ calls[1] = 3

\* C6: when the retries are exhausted, the error thrown to the handler (and
\* answered from) is the one the last attempt failed with.
C6_LastErrorPropagated ==
    \A r \in ReqIds :
        exit[r] = "exhausted" =>
            /\ lastError[r] = Last(errors[r])
            /\ resp[r] = CatchResponse(program, Last(errors[r]))

C6_Witness ==
    /\ exit[1] = "exhausted"
    /\ Len(errors[1]) = 3
    /\ errors[1][1] # errors[1][3]
    /\ errors[1][2] # errors[1][3]
    /\ resp[1].body.details = errors[1][3].message.v

\* A required field given as a string that is empty once trimmed.
SomeFieldBlank(b) ==
    \E f \in {"curriculum", "classLevel", "subject", "topic"} :
        b[f].t = "string" /\ trim(b[f].v) = <<>>

\* C7: a request whose curriculum, classLevel, subject or topic is an empty or
\* white-space-only string is answered with HTTP 400 and reaches neither the
\* prompt construction nor the external call.
C7_BlankFieldRejected ==
    \A r \in ReqIds :
        (pc[r] \notin {"pending", "received"} /\ SomeFieldBlank(body[r])) =>
            /\ resp[r].status = 400
            /\ prompt[r] = Undef
            /\ calls[r] = 0

\* `sections` is given, and is not a non-empty sequence of strings.
SectionsMalformed(b) ==
    /\ b.sections # Undef
    /\ \/ b.sections.t # "array"
       \/ b.sections.v = <<>>
       \/ \E k \in 1..Len(b.sections.v) : b.sections.v[k].t # "string"

\* C8: a request whose sections is given but is not a non-empty sequence of
\* strings is answered with HTTP 400, and no external call is made for it.
C8_MalformedSectionsRejected ==
    \A r \in ReqIds :
        (pc[r] \notin {"pending", "received"} /\ SectionsMalformed(body[r])) =>
            /\ resp[r].status = 400
            /\ calls[r] = 0

\* d is t without its leading and trailing white space.
IsTrimOf(d, t) ==
    \E a, b \in 0..Len(t) :
        /\ a + b <= Len(t)
        /\ d = SubSeq(t, a + 1, Len(t) - b)
        /\ \A k \in 1..a : IsSpace(t[k])
        /\ \A k \in (Len(t) - b + 1)..Len(t) : IsSpace(t[k])
        /\ d # <<>> => (~IsSpace(d[1]) /\ ~IsSpace(d[Len(d)]))

\* C9 as stated: a successful attempt's text is answered with HTTP 200 as the
\* draft, unchanged, and HTTP 200 is answered only after a successful call.
C9_DraftIsText ==
    \A r \in ReqIds :
        /\ genText[r] # Undef =>
              (resp[r].status = 200 /\ resp[r].body.draft = genText[r].v)
        /\ resp[r].status = 200 => (genText[r] # Undef /\ calls[r] >= 1)

\* C9, amended: a successful attempt's text is answered with HTTP 200 and the
\* draft is that text without its leading and trailing white space; HTTP 200 is
\* answered only to a valid request, after a successful call.
C9_DraftIsTrimmedText ==
    \A r \in ReqIds :
        /\ genText[r] # Undef =>
              /\ resp[r].status = 200
              /\ DOMAIN resp[r].body = {"draft"}
              /\ IsTrimOf(resp[r].body.draft, genText[r].v)
        /\ resp[r].status = 200 =>
              /\ genText[r] # Undef
              /\ calls[r] >= 1
              /\ Len(errors[r]) = calls[r] - 1
              /\ ~SomeFieldMissing(body[r])

C9_Witness ==
    /\ program = "index.js"
    /\ calls[1] = 3
    /\ genText[1] = Str(TextPadded)
    /\ resp[1].status = 200
    /\ resp[1].body.draft = TextPlain

\* C10: a permanent upstream failure is answered with HTTP 500 whose details
\* are the failure's message, unchanged; this holds of every failure
\* generateWithRetry threw as not retryable.
C10_PermanentRawDetails ==
    \A r \in ReqIds :
        (/\ program = "index.js"
         /\ errors[r] # <<>>
         /\ (exit[r] = "nonRetryable" \/ Permanent(Last(errors[r])))) =>
            /\ Last(errors[r]).t = "error"
            /\ Last(errors[r]).message.t = "string"
            /\ resp[r].status = 500
            /\ resp[r].body.details = Last(errors[r]).message.v

C10_Witness ==
    /\ program = "index.js"
    /\ exit[1] = "nonRetryable"
    /\ Last(errors[1]) = Err(Str(MsgNearMiss))
    /\ resp[1].status = 500
    /\ resp[1].body.details = MsgNearMiss

\* C11: a transient upstream failure that outlasts every attempt is answered
\* with HTTP 500 and the "AI Service Busy" error; when its message contains
\* "overloaded" in any letter case, as the retry classifier matches it, the
\* details are the caller-friendly text and not the upstream message.
C11_TransientFriendlyBusy ==
    \A r \in ReqIds :
        (program = "index.js" /\ exit[r] = "exhausted") =>
            /\ Transient(Last(errors[r]))
            /\ resp[r].status = 500
            /\ resp[r].body.error = "AI Service Busy"
            /\ includes(toLowerCase(Last(errors[r]).message.v), NeedleOverloaded)
                  => resp[r].body.details = FriendlyOverloaded

(***************************************************************************)
(* The sections list, on its own.                                          *)
(***************************************************************************)
\* Longest `sections` array handed to formattedSections below.
MaxFormatSections == 3

\* "a\nb"
WordTwoLines == <<"a", "\n", "b">>

\* Entries of `sections`: words, the empty string, a string with a line break.
FormatEntries ==
    {Str(WordObjectives), Str(WordContent), Str(<<>>), Str(WordTwoLines)}

\* Valid bodies whose `sections` is a non-empty array of strings.
FormatBodies ==
    {[curriculum |-> Str(WordNERDC), classLevel |-> Str(WordJSS1),
      subject |-> Str(WordMath), topic |-> Str(WordSets), week |-> Undef,
      subTopic |-> Undef, sections |-> Arr(a)] :
        a \in UNION {[1..n -> FormatEntries] : n \in 1..MaxFormatSections}}

\* A request with such a body has been received.
FormatInit ==
    /\ program \in Programs
    /\ pc = [r \in ReqIds |-> IF r = 1 THEN "received" ELSE "pending"]
    /\ \E b \in FormatBodies : body = [r \in ReqIds |-> IF r = 1 THEN b ELSE Undef]
    /\ prompt = [r \in ReqIds |-> Undef]
    /\ i = [r \in ReqIds |-> 0]
    /\ lastError = [r \in ReqIds |-> Undef]
    /\ hung = [r \in ReqIds |-> FALSE]
    /\ resp = [r \in ReqIds |-> NoResponse]
    /\ calls = [r \in ReqIds |-> 0]
    /\ waits = [r \in ReqIds |-> <<>>]
    /\ errors = [r \in ReqIds |-> <<>>]
    /\ genText = [r \in ReqIds |-> Undef]
    /\ exit = [r \in ReqIds |-> "none"]

\* The handler formats the list and builds the prompt.
FormatNext == Handle(1)

FormatSpec == FormatInit /\ [][FormatNext]_vars

\* The lines of a text: what stands between its line breaks.
RECURSIVE SplitLines(_)
SplitLines(s) ==
    IF \A k \in 1..Len(s) : s[k] # "\n"
    THEN <<s>>
    ELSE LET k == CHOOSE j \in 1..Len(s) :
                      s[j] = "\n" /\ \A m \in 1..(j - 1) : s[m] # "\n"
         IN <<SubSeq(s, 1, k - 1)>> \o SplitLines(SubSeq(s, k + 1, Len(s)))

\* Line k of the list for `entries`: "k. " and the entry in upper case.
ExpectedLines(entries) ==
    [k \in 1..Len(entries) |->
        NumToStr(k) \o <<".", " ">> \o toUpperCase(entries[k].v)]

HasLineBreak(s) == \E k \in 1..Len(s) : s[k] = "\n"

\* C12 as stated: for every non-empty sequence of section strings the list in
\* the prompt has exactly one line per entry, in input order, line k being
\* "k. " followed by the k-th entry in upper case.
C12_OneLinePerEntry ==
    \A r \in ReqIds :
        prompt[r] # Undef =>
            SplitLines(prompt[r].sections) = ExpectedLines(body[r].sections.v)

\* C12, amended: the same, for every non-empty sequence of section strings
\* none of which contains a line break.
C12_OneLinePerEntryNoBreaks ==
    \A r \in ReqIds :
        (/\ prompt[r] # Undef
         /\ \A k \in 1..Len(body[r].sections.v) :
               ~HasLineBreak(body[r].sections.v[k].v)) =>
            /\ Len(SplitLines(prompt[r].sections)) = Len(body[r].sections.v)
            /\ SplitLines(prompt[r].sections) = ExpectedLines(body[r].sections.v)

\* "1. CONTENT\n2. OBJECTIVES\n3. CONTENT"
C12_Witness ==
    /\ pc[1] = "awaitGen"
    /\ body[1].sections =
          Arr(<<Str(WordContent), Str(WordObjectives), Str(WordContent)>>)
    /\ prompt[1].sections =
          <<"1", ".", " ", "C", "O", "N", "T", "E", "N", "T", "\n",
            "2", ".", " ", "O", "B", "J", "E", "C", "T", "I", "V", "E", "S", "\n",
            "3", ".", " ", "C", "O", "N", "T", "E", "N", "T">>

(***************************************************************************)
(* The retry state machine.                                                *)
(***************************************************************************)
\* The state of the machine that an invocation of generateWithRetry is in:
\* IDLE (not invoked), ATTEMPT(n), WAIT before attempt n, DONE, FAILED.
MachineState(pc_, calls_, waits_, exit_) ==
    IF exit_ = "returned" THEN [s |-> "DONE"]
    ELSE IF exit_ # "none" THEN [s |-> "FAILED"]
    ELSE IF pc_ = "awaitGen" THEN [s |-> "ATTEMPT", n |-> calls_ - 1]
    ELSE IF pc_ = "backoff"
    THEN [s |-> "WAIT", n |-> calls_, ms |-> waits_[Len(waits_)]]
    ELSE [s |-> "IDLE"]

\* The transitions of the machine, from a to b, given the failures so far and
\* whether a text has been returned.
MachineStep(a, b, failures, text) ==
    \/ /\ a.s = "IDLE"
       /\ b = [s |-> "ATTEMPT", n |-> 0]
    \/ /\ a.s = "ATTEMPT"
       /\ b.s = "DONE"
       /\ text # Undef
    \/ /\ a.s = "ATTEMPT"
       /\ b.s = "FAILED"
       /\ Len(failures) = a.n + 1
       /\ \/ ~Transient(Last(failures))
          \/ a.n + 1 >= maxRetries
    \/ /\ a.s = "ATTEMPT"
       /\ b = [s |-> "WAIT", n |-> a.n + 1, ms |-> (2 ^ (a.n + 1)) * 1000]
       /\ Len(failures) = a.n + 1
       /\ Transient(Last(failures))
       /\ a.n + 1 < maxRetries
    \/ /\ a.s = "WAIT"
       /\ b = [s |-> "ATTEMPT", n |-> a.n]
       /\ a.n <= maxRetries - 1

\* A step of request r is a transition of the machine, or leaves the machine
\* where it is and then makes no call and waits for nothing.
RefinesMachine(r) ==
    LET a == MachineState(pc[r], calls[r], waits[r], exit[r])
        b == MachineState(pc'[r], calls'[r], waits'[r], exit'[r])
    IN IF a = b
       THEN calls'[r] = calls[r] /\ waits'[r] = waits[r]
       ELSE /\ MachineStep(a, b, errors'[r], genText'[r])
            /\ calls'[r] = IF b.s = "ATTEMPT" THEN calls[r] + 1 ELSE calls[r]
            /\ Len(waits'[r]) = IF b.s = "WAIT" THEN Len(waits[r]) + 1
                                ELSE Len(waits[r])

\* C13: every step of generateWithRetry is a transition of the state machine
\* IDLE -> ATTEMPT(0), ATTEMPT(n) -success-> DONE, ATTEMPT(n) -permanent->
\* FAILED, ATTEMPT(n) -transient, n+1 < max-> WAIT(2^(n+1) s) -> ATTEMPT(n+1),
\* ATTEMPT(n) -transient, n+1 >= max-> FAILED; the attempt index stays below
\* max, and nothing follows DONE or FAILED.
C13_RefinesStateMachine ==
    [][\A r \in ReqIds : program = "index.js" => RefinesMachine(r)]_vars

C13_Witness ==
    /\ program = "index.js"
    /\ exit[1] = "returned"
    /\ calls[1] = 2
    /\ waits[1] = <<2000>>
    /\ Transient(errors[1][1])

\* C14: no failure leaves the handler: whatever the external capability
\* rejects with, and whatever prompt construction throws, the handler's catch
\* block answers it, so a request whose handler has ended has exactly one
\* response, and a failed one a JSON error body with status 400 or 500.
C14_EveryFailureAnswered ==
    \A r \in ReqIds :
        /\ pc[r] # "unhandled"
        /\ pc[r] = "responded" =>
              /\ resp[r].status \in {200, 400, 500}
              /\ resp[r].status # 200 => "error" \in DOMAIN resp[r].body
        /\ resp[r] # NoResponse => pc[r] = "responded"

(***************************************************************************)
(* Concurrent requests.                                                    *)
(***************************************************************************)
\* Bodies of the concurrent requests: a valid one, and one without a topic.
ConcBodies ==
    {[curriculum |-> Str(WordNERDC), classLevel |-> Str(WordJSS1),
      subject |-> Str(WordMath), topic |-> t, week |-> Undef,
      subTopic |-> Undef, sections |-> Arr(<<Str(WordObjectives)>>)] :
        t \in {Str(WordSets), Undef}}

\* What the external capability does to their calls.
ConcTexts == {TextPadded}

ConcRejections == {Err(Str(Msg503)), Err(Str(MsgOverloaded)), Err(Str(Msg400))}

ConcArrive(r) ==
    /\ pc[r] = "pending"
    /\ \E b \in ConcBodies : body' = [body EXCEPT ![r] = b]
    /\ pc' = [pc EXCEPT ![r] = "received"]
    /\ UNCHANGED <<program, prompt, i, lastError, hung, resp, calls, waits,
                   errors, genText, exit>>

\* Every request is handled on the one event loop: the handlers' steps
\* interleave at their awaits, in any order.
ConcNext ==
    \E r \in ReqIds :
        \/ ConcArrive(r)
        \/ Handle(r)
        \/ \E text \in ConcTexts : GenResolve(r, text)
        \/ \E error \in ConcRejections : GenReject(r, error)
        \/ BackoffElapsed(r)
        \/ GenNeverSettles(r)

ConcSpec == Init /\ [][ConcNext]_vars

\* All that the program holds for request r.
RequestState(r) ==
    <<pc[r], body[r], prompt[r], i[r], lastError[r], hung[r], resp[r], calls[r],
      waits[r], errors[r], genText[r], exit[r]>>

\* What has come from outside for request r, and where its handler is.
OwnHistory(r) == <<body[r], errors[r], genText[r], hung[r], pc[r]>>

\* Two requests with the same body, the same results of their own calls and
\* their handlers at the same place agree on attempts, waits, retry counter,
\* last error and response.
SameHistorySameOutcome ==
    \A r1, r2 \in ReqIds :
        OwnHistory(r1) = OwnHistory(r2) => RequestState(r1) = RequestState(r2)

\* No step touches what is held for two requests.
TouchesOneRequest ==
    \A r1, r2 \in ReqIds :
        r1 # r2 =>
            \/ RequestState(r1)' = RequestState(r1)
            \/ RequestState(r2)' = RequestState(r2)

\* C15: under any interleaving of the requests' steps, and after any earlier
\* request, a step of one request changes nothing held for another, and a
\* request's attempts, waits and response are determined by its own body and
\* the results of its own calls.
C15_RequestsIndependent ==
    /\ []SameHistorySameOutcome
    /\ [][TouchesOneRequest]_vars

\* Request 2 has used up its three attempts while request 1 waits for its
\* first retry.
C15_Witness ==
    /\ program = "index.js"
    /\ pc[1] = "backoff"
    /\ calls[1] = 1
    /\ exit[2] = "exhausted"
    /\ calls[2] = 3
    /\ waits[2] = <<2000, 4000>>

\* The calls, waits and failures of an invocation of generateWithRetry that
\* ended with its last call succeeding: n transient failures, then the n+1st
\* call, n < maxRetries, one wait before each retry, and nothing afterwards.
SucceededAfterRetries(r) ==
    /\ exit[r] = "returned"
    /\ pc[r] = "responded"
    /\ \A k \in 1..Len(errors[r]) : Transient(errors[r][k])
    /\ calls[r] = Len(errors[r]) + 1
    /\ calls[r] <= maxRetries
    /\ Len(waits[r]) = Len(errors[r])
    /\ resp[r].status = 200

\* C16 as stated: when attempts 0..n-1 fail with transient errors and attempt
\* n succeeds, the invocation returns the text of attempt n, unchanged, after
\* exactly n+1 calls, and neither waits nor calls after the success.
C16_ReturnsAttemptText ==
    \A r \in ReqIds :
        (program = "index.js" /\ genText[r] # Undef) =>
            /\ SucceededAfterRetries(r)
            /\ resp[r].body.draft = genText[r].v

\* C16, amended: the same, the text returned being the text of attempt n
\* without its leading and trailing white space.
C16_ReturnsTrimmedAttemptText ==
    \A r \in ReqIds :
        (program = "index.js" /\ genText[r] # Undef) =>
            /\ SucceededAfterRetries(r)
            /\ IsTrimOf(resp[r].body.draft, genText[r].v)

C16_Witness ==
    /\ program = "index.js"
    /\ genText[1] = Str(TextPadded)
    /\ Len(errors[1]) = 1
    /\ calls[1] = 2
    /\ resp[1].body.draft = TextPlain

\* A request with every required field a non-blank string and `sections` a
\* non-empty array of strings.
ValidRequest(b) ==
    /\ ~SomeFieldMissing(b)
    /\ ~SomeFieldBlank(b)
    /\ ~SectionsMalformed(b)

\* The `details` of a response body: a string, or undefined when the key is
\* not there.
DetailsOf(answer) ==
    IF "details" \in DOMAIN answer.body THEN Str(answer.body.details) ELSE Undef

\* C17: in the program without retry, a valid request makes exactly one call
\* of the external capability and never waits; if that call fails, whatever
\* the failure, the request is answered at once with HTTP 500, error
\* "AI Generation Failed" and the failure's message as details.
C17_SingleCallRawFailure ==
    \A r \in ReqIds :
        (/\ program = "part_000"
         /\ pc[r] \notin {"pending", "received"}
         /\ ValidRequest(body[r])) =>
            /\ calls[r] = 1
            /\ waits[r] = <<>>
            /\ errors[r] # <<>> =>
                  /\ Len(errors[r]) = 1
                  /\ pc[r] = "responded"
                  /\ resp[r].status = 500
                  /\ resp[r].body.error = "AI Generation Failed"
                  /\ DetailsOf(resp[r]) = errors[r][1].message

=============================================================================
